---- MODULE Spec2Model ----
(***************************************************************************)
(* secret-link: the client-side synchronisation layer of a passphrase-     *)
(* keyed note.  The module models                                          *)
(*   - lib/secretnotes.ts: normalizePhrase, handleJson, getNote, saveNote, *)
(*     createNote, the getOrCreateNote protocol and uploadImageFromUrl;    *)
(*   - the IndexScreen component: its state, withLoad, onLoad and the      *)
(*     debounced autosave effect.                                          *)
(* The specifications share the variables: SpecResolver drives a single    *)
(* getOrCreateNote call against an arbitrary transport; Spec drives the    *)
(* screen (edits, timers, loads, write responses) and FairSpec adds that   *)
(* time passes and requests are answered; SpecJson applies the             *)
(* JSON operation (fetch, then handleJson) to one response; SpecUpload     *)
(* drives a single uploadImageFromUrl call.                                *)
(***************************************************************************)
EXTENDS Integers, Sequences, FiniteSets, TLC

VARIABLES
    goc,        \* SpecResolver: the running getOrCreateNote call
    reqs,       \* SpecResolver: the requests the call has issued, in order
    acts,       \* screen: user actions, loads and odd answers so far (bounded)
    phrase,     \* screen: useState phrase
    note,       \* screen: useState note (a JS value, JNull when null)
    message,    \* screen: useState message
    loading,    \* screen: useState loading.key
    timer,      \* screen: the armed setTimeout behind saveTimeout.current
    ops,        \* screen: withLoad bodies suspended on an await, oldest first
    mounted,    \* screen: the component is mounted
    alert,      \* screen: what the last Alert.alert showed
    lastWrite,  \* screen: the last autosave PUT the timer callback issued
    hist,       \* screen: history of the run (observations only)
    json,       \* SpecJson: one JSON operation, its response and its result
    upl         \* SpecUpload: the running uploadImageFromUrl call

vars == <<goc, reqs, acts, phrase, note, message, loading, timer, ops, mounted,
          alert, lastWrite, hist, json, upl>>

resolverVars == <<goc, reqs>>
screenVars == <<acts, phrase, note, message, loading, timer, ops, mounted,
                alert, lastWrite, hist>>
libVars == <<json, upl>>

-----------------------------------------------------------------------------
(* JavaScript values as far as the code looks at them.  U is `undefined`.  *)

U == "<undefined>"

\* the key of a value that is no Note
UKey == <<U>>

\* the text of an Error: the status line, then either nothing ("plain"),
\* ": <field>" ("detail") or " - <first snip characters of the body>"
ErrMsg(status, how, detail, snip) ==
    [status |-> status, how |-> how, detail |-> detail, snip |-> snip]

NoErr == ErrMsg(U, "none", U, 0)

JNull == [t |-> "null", key |-> UKey, message |-> U, error |-> U, err |-> NoErr]

JObj(k, m, e) ==
    [t |-> "obj", key |-> k, message |-> m, error |-> e, err |-> NoErr]

\* {} : what handleJson returns for an empty or unparseable success body
EmptyObj == JObj(UKey, U, U)

\* a Note as the server serialises it; key stands for the note's identity
NoteOf(k, m) == JObj(k, m, U)

\* new Error(msg), or the TypeError a rejected fetch carries; err is its
\* .message
JError(msg) ==
    [t |-> "error", key |-> UKey, message |-> U, error |-> U, err |-> msg]

\* JS truthiness of a string-or-undefined field
TruthyStr(s) == s # U /\ s # ""

\* JS truthiness of a value: null is falsy, every object is truthy
Truthy(v) == v.t # "null"

\* a || b
OrElse(a, b) == IF Truthy(a) THEN a ELSE b

Min(a, b) == IF a <= b THEN a ELSE b

-----------------------------------------------------------------------------
(* Passphrases are sequences of characters.                                *)

IsSpace(c) == c = " "

RECURSIVE TrimLeft(_)
TrimLeft(p) ==
    IF p # <<>> /\ IsSpace(Head(p)) THEN TrimLeft(Tail(p)) ELSE p

RECURSIVE TrimRight(_)
TrimRight(p) ==
    IF p # <<>> /\ IsSpace(p[Len(p)]) THEN TrimRight(SubSeq(p, 1, Len(p) - 1))
    ELSE p

\* normalizePhrase: (p ?? '').trim()
normalizePhrase(p) == TrimRight(TrimLeft(p))

DEFAULT_INIT_MESSAGE == "Welcome to your new secure note!"

-----------------------------------------------------------------------------
(* Transport: a Response is [ok, status, readable, text].  The text of a   *)
(* body is empty, raw (not JSON, len characters) or the JSON of a value.   *)

SNIPPET_MAX == 200

EmptyText == [kind |-> "empty", len |-> 0, val |-> JNull]
RawText(n) == [kind |-> "raw", len |-> n, val |-> JNull]
JsonText(v) == [kind |-> "json", len |-> 1, val |-> v]

Response(ok, status, readable, text) ==
    [ok |-> ok, status |-> status, readable |-> readable, text |-> text]

Thrown(err) == [ok |-> FALSE, val |-> err]
Returned(v) == [ok |-> TRUE, val |-> v]

\* handleJson preferring data.message to data.error
handleJson_MessageFirst(res) ==
    LET text == IF res.readable THEN res.text ELSE EmptyText
    IN  IF ~res.ok THEN
            IF text.kind = "empty" THEN
                Thrown(JError(ErrMsg(res.status, "plain", U, 0)))
            ELSE IF text.kind = "json" THEN
                IF text.val.t # "null" /\ TruthyStr(text.val.message) THEN
                    Thrown(JError(ErrMsg(res.status, "detail", text.val.message, 0)))
                ELSE IF text.val.t # "null" /\ TruthyStr(text.val.error) THEN
                    Thrown(JError(ErrMsg(res.status, "detail", text.val.error, 0)))
                ELSE Thrown(JError(ErrMsg(res.status, "plain", U, 0)))
            ELSE Thrown(JError(ErrMsg(res.status, "snippet", U,
                                      Min(text.len, SNIPPET_MAX))))
        ELSE IF text.kind = "empty" THEN Returned(EmptyObj)
        ELSE IF text.kind = "json" THEN Returned(text.val)
        ELSE Returned(EmptyObj)

\* handleJson letting the parse error of a successful response escape
handleJson_ParseErrorThrows(res) ==
    LET text == IF res.readable THEN res.text ELSE EmptyText
    IN  IF res.ok /\ text.kind = "raw"
        THEN Thrown(JError(ErrMsg("SyntaxError: JSON Parse error", "plain", U, 0)))
        ELSE handleJson_MessageFirst(res)

\* handleJson(res): Returned(value) or Thrown(Error)
handleJson(res) ==
    LET text == IF res.readable THEN res.text ELSE EmptyText
    IN  IF ~res.ok THEN
            IF text.kind = "empty" THEN
                Thrown(JError(ErrMsg(res.status, "plain", U, 0)))
            ELSE IF text.kind = "json" THEN
                IF text.val.t # "null" /\ TruthyStr(text.val.error) THEN
                    Thrown(JError(ErrMsg(res.status, "detail", text.val.error, 0)))
                ELSE IF text.val.t # "null" /\ TruthyStr(text.val.message) THEN
                    Thrown(JError(ErrMsg(res.status, "detail", text.val.message, 0)))
                ELSE Thrown(JError(ErrMsg(res.status, "plain", U, 0)))
            ELSE Thrown(JError(ErrMsg(res.status, "snippet", U,
                                      Min(text.len, SNIPPET_MAX))))
        ELSE IF text.kind = "empty" THEN Returned(EmptyObj)
        ELSE IF text.kind = "json" THEN Returned(text.val)
        ELSE Returned(EmptyObj)

\* what `await fetch(..)` followed by handleJson gives: fetch itself may
\* reject (net = TRUE), otherwise the response goes through handleJson
NetworkError == JError(ErrMsg("Network request failed", "plain", U, 0))

Awaited(net, res) == IF net THEN Thrown(NetworkError) ELSE handleJson(res)

-----------------------------------------------------------------------------
(* What the remote store may answer.  A successful write echoes the Note   *)
(* it stored; a successful read returns the Note as some client last wrote *)
(* it.  Any success may also come with an empty body, a body that is not   *)
(* JSON, or the JSON of null.                                              *)

ServerMsgs == {"x", DEFAULT_INIT_MESSAGE}

RAW_LEN == 300

OkStatus == "200 OK"

FailStatuses == {"404 Not Found", "500 Internal Server Error"}

OddTexts == {EmptyText, RawText(RAW_LEN), JsonText(JNull)}

SuccessTexts(method, key, msg) ==
    (IF method = "GET" THEN {JsonText(NoteOf(key, m)) : m \in ServerMsgs}
     ELSE {JsonText(NoteOf(key, msg))})
    \cup OddTexts

FailureTexts ==
    {EmptyText, RawText(RAW_LEN),
     JsonText(JObj(UKey, U, "note not found")),
     JsonText(JObj(UKey, "validation failed", U))}

Responses(method, key, msg) ==
    {Response(TRUE, OkStatus, TRUE, t) : t \in SuccessTexts(method, key, msg)}
    \cup {Response(TRUE, OkStatus, FALSE, EmptyText)}
    \cup {Response(FALSE, s, TRUE, t) : s \in FailStatuses, t \in FailureTexts}

\* every way an awaited request can end
Outcomes(method, key, msg) ==
    {Awaited(FALSE, res) : res \in Responses(method, key, msg)}
    \cup {Awaited(TRUE, Response(FALSE, U, FALSE, EmptyText))}

-----------------------------------------------------------------------------
(* getOrCreateNote as the sequence of its awaits.  A call is               *)
(* [pc, key, e, patchErr, out]: pc names the request it is suspended on.   *)

Request(method, key, msg) == [method |-> method, key |-> key, message |-> msg]

\* the request a call suspended at pc has in flight
GocRequest(c) ==
    CASE c.pc = "getNote"    -> Request("GET", c.key, U)
      [] c.pc = "saveNote"   -> Request("PUT", c.key, DEFAULT_INIT_MESSAGE)
      [] c.pc = "createNote" -> Request("POST", c.key, DEFAULT_INIT_MESSAGE)
      [] c.pc = "finalGet"   -> Request("GET", c.key, U)

GocRunning(c) == c.pc \in {"getNote", "saveNote", "createNote", "finalGet"}

\* getOrCreateNote(phrase) up to its first await
GocStart(p) ==
    [pc |-> "getNote", key |-> normalizePhrase(p), e |-> JNull,
     patchErr |-> JNull, out |-> Returned(JNull)]

GocReturn(c, v) == [c EXCEPT !.pc = "returned", !.out = Returned(v)]
GocThrow(c, err) == [c EXCEPT !.pc = "thrown", !.out = Thrown(err)]

\* line 93: if (createdOrUpdated) return createdOrUpdated; else final GET
GocAfterWrite(c, createdOrUpdated) ==
    IF Truthy(createdOrUpdated) THEN GocReturn(c, createdOrUpdated)
    ELSE [c EXCEPT !.pc = "finalGet"]

\* the precedence reversed: e || patchErr || postErr
GocBubble_ReadFirst(postErr, patchErr, e) == OrElse(OrElse(e, patchErr), postErr)

\* line 89: throw postErr || patchErr || e
GocBubble(postErr, patchErr, e) == OrElse(OrElse(postErr, patchErr), e)

\* a read whose value is falsy taken for a failed read
GocAfterRead_FalsyFails(c, r) ==
    IF r.ok /\ Truthy(r.val) THEN GocReturn(c, r.val)
    ELSE [c EXCEPT !.pc = "saveNote", !.e = r.val]

\* lines 73-76: the read's value is returned as it is; a failure starts
\* the initialising write
GocAfterRead(c, r) ==
    IF r.ok THEN GocReturn(c, r.val)
    ELSE [c EXCEPT !.pc = "saveNote", !.e = r.val]

\* lines 81-84: saveNote's value is kept, its failure leads to createNote
GocAfterSave(c, r) ==
    IF r.ok THEN GocAfterWrite(c, r.val)
    ELSE [c EXCEPT !.pc = "createNote", !.patchErr = r.val]

\* lines 85-90
GocAfterCreate(c, r) ==
    IF r.ok THEN GocAfterWrite(c, r.val)
    ELSE GocThrow(c, GocBubble(r.val, c.patchErr, c.e))

\* line 95: return await getNote(key)
GocAfterFinalGet(c, r) ==
    IF r.ok THEN GocReturn(c, r.val) ELSE GocThrow(c, r.val)

\* the call resumes with r, the outcome of the request it awaited
GocNext(c, r) ==
    CASE c.pc = "getNote"    -> GocAfterRead(c, r)
      [] c.pc = "saveNote"   -> GocAfterSave(c, r)
      [] c.pc = "createNote" -> GocAfterCreate(c, r)
      [] c.pc = "finalGet"   -> GocAfterFinalGet(c, r)

-----------------------------------------------------------------------------
(* SpecResolver: one getOrCreateNote call, every request answered in every *)
(* way the transport can answer it.                                        *)

Phrases ==
    {<<>>, <<"k", "e", "y">>, <<" ", "a", " ">>}

GocIdle ==
    [pc |-> "idle", key |-> <<>>, e |-> JNull, patchErr |-> JNull,
     out |-> Returned(JNull)]

Pending == [ok |-> FALSE, val |-> JNull]

Issued(req) == [req |-> req, done |-> FALSE, out |-> Pending]

ResolverInit ==
    /\ goc = GocIdle
    /\ reqs = <<>>

\* a caller invokes getOrCreateNote(p): the call issues its GET and suspends
GocCall(p) ==
    /\ goc.pc = "idle"
    /\ goc' = GocStart(p)
    /\ reqs' = <<Issued(GocRequest(goc'))>>
    /\ UNCHANGED <<screenVars, libVars>>

\* the awaited request ends with r; the call runs to its next await or ends
GocResume(r) ==
    /\ GocRunning(goc)
    /\ goc' = GocNext(goc, r)
    /\ LET answered == [reqs EXCEPT ![Len(reqs)] =
                            [@ EXCEPT !.done = TRUE, !.out = r]]
       IN  reqs' = IF GocRunning(goc')
                   THEN Append(answered, Issued(GocRequest(goc')))
                   ELSE answered
    /\ UNCHANGED <<screenVars, libVars>>

GocResumeAny ==
    /\ GocRunning(goc)
    /\ \E r \in Outcomes(GocRequest(goc).method, goc.key, GocRequest(goc).message) :
        GocResume(r)

GocCallAny == \E p \in Phrases : GocCall(p)

-----------------------------------------------------------------------------
(* IndexScreen.  State changes made by one synchronous stretch of code are *)
(* one step: no timer callback or response can run in between, and the     *)
(* autosave effect reads the state the stretch leaves behind.              *)

MIN_PHRASE_LEN == 3

DEBOUNCE_MS == 2000

\* the granularity of the clock
TickMs == DEBOUNCE_MS \div 2

\* the events the environment is given: user actions (phrase changes,
\* edits, loads, unmount) and successful answers that carry no Note; and
\* the loads among the user actions
MaxActs == 5
MaxLoads == 2

CanAct == acts.n < MaxActs
Acted == [acts EXCEPT !.n = @ + 1]
CanAnswer(r) == (r.ok /\ r.val.key = UKey) => CanAct
AfterAnswer(r) == IF r.ok /\ r.val.key = UKey THEN Acted ELSE acts

EditMsgs == {"x", "xy", "xyz"}

\* useMemo(() => phrase.length >= 3, [phrase])
valid(p) == Len(p) >= MIN_PHRASE_LEN

NoTimer == [armed |-> FALSE, left |-> 0, phrase |-> <<>>, message |-> ""]

\* setTimeout(() => withLoad('autosave', .. saveNote(phrase, message) ..), 2000):
\* the callback closes over the phrase and message of the render
setTimeout(p, m) ==
    [armed |-> TRUE, left |-> DEBOUNCE_MS, phrase |-> p, message |-> m]

\* a clean-up that leaves the timer running
clearTimeout_Forgets(t) == t

\* if (saveTimeout.current) clearTimeout(saveTimeout.current)
clearTimeout(t) == IF t.armed THEN NoTimer ELSE t

\* the effect without line 66, the comparison with the confirmed message
AutosaveEffect_NoEqualityCheck(n, m, p, t) ==
    LET cleaned == clearTimeout(t)
    IN  IF ~Truthy(n) THEN cleaned
        ELSE IF ~valid(p) THEN cleaned
        ELSE setTimeout(p, m)

\* the effect leaving a running timer its deadline instead of restarting it
AutosaveEffect_NoRestart(n, m, p, t) ==
    IF ~Truthy(n) \/ ~valid(p) \/ m = n.message THEN clearTimeout(t)
    ELSE IF t.armed THEN [t EXCEPT !.phrase = p, !.message = m]
    ELSE setTimeout(p, m)

\* the effect of lines 63-80 run after a render with note n, message m and
\* phrase p while t is the timer: the clean-up of the run that armed t,
\* then the body
AutosaveEffect(n, m, p, t) ==
    LET cleaned == clearTimeout(t)
    IN  IF ~Truthy(n) THEN cleaned
        ELSE IF ~valid(p) THEN cleaned
        ELSE IF m = n.message THEN cleaned
        ELSE setTimeout(p, m)

\* setNote(v) re-renders unless Object.is(old, v): every response body is a
\* fresh object, only null is the same value again
NoteChanged(n0, v) == ~(n0.t = "null" /\ v.t = "null")

\* the effect not run when only the Note changed
TimerAfterRender_IgnoresNote(noteSet, m0, m1, p0, p1, n1, t) ==
    IF m1 # m0 \/ valid(p1) # valid(p0)
    THEN AutosaveEffect(n1, m1, p1, t)
    ELSE t

\* the timer after a render: the effect runs when one of its dependencies
\* [message, note, valid] changed
TimerAfterRender(noteSet, m0, m1, p0, p1, n1, t) ==
    IF noteSet \/ m1 # m0 \/ valid(p1) # valid(p0)
    THEN AutosaveEffect(n1, m1, p1, t)
    ELSE t

NoAlert == [title |-> U, msg |-> NoErr]

\* what the catch of withLoad hands to Alert.alert('Error', ..)
ErrorAlert(err) == [title |-> "Error", msg |-> err.err]

InvalidAlert ==
    [title |-> "Invalid",
     msg |-> ErrMsg("Passphrase must be at least 3 characters.", "plain", U, 0)]

\* reading n.message of null
TypeErrorOfNull == JError(ErrMsg("TypeError: null has no properties", "plain", U, 0))

\* n.message ?? ''
MessageOrEmpty(n) == IF n.message = U THEN "" ELSE n.message

\* the failure a rejected fetch gives; the screen only shows its message
ScreenOutcomes(method, key, msg) ==
    {r \in Outcomes(method, key, msg) : r.ok \/ r.val = NetworkError}

\* a withLoad body suspended on a request.  edited and stale are history:
\* the message was edited since the write was issued; a later-started
\* operation for another key has stored its result already
LoadOp(p) ==
    [kind |-> "load", key |-> normalizePhrase(p), msg |-> U,
     call |-> GocStart(p), edited |-> FALSE, stale |-> FALSE]

\* saveNote(phrase, message) up to its await
SaveOp(p, m) ==
    [kind |-> "autosave", key |-> normalizePhrase(p), msg |-> m,
     call |-> GocIdle, edited |-> FALSE, stale |-> FALSE]

OpIds == 1..Len(ops)

SaveIds == {i \in OpIds : ops[i].kind = "autosave"}

LoadIds == {i \in OpIds : ops[i].kind = "load"}

RemoveAt(s, i) == SubSeq(s, 1, i - 1) \o SubSeq(s, i + 1, Len(s))

\* operation i leaves and has stored its result: the earlier-started
\* operations for another key are stale from now on
Superseding(s, i) ==
    RemoveAt([j \in 1..Len(s) |->
                 IF j < i /\ s[j].key # s[i].key
                 THEN [s[j] EXCEPT !.stale = TRUE] ELSE s[j]], i)

NoWrite == [key |-> UKey, message |-> U, confirmed |-> U]

HistInit ==
    [sinceEdit |-> DEBOUNCE_MS, burstActive |-> FALSE, burstClean |-> FALSE,
     burstN |-> 0, burstEdits |-> 0, duringEdit |-> U,
     fail |-> "none", held |-> "none", saved |-> "none",
     teardown |-> "none", writes |-> "echoed"]

ScreenInit ==
    /\ acts = [n |-> 0, loads |-> 0]
    /\ phrase = <<>>
    /\ note = JNull
    /\ message = ""
    /\ loading = U
    /\ timer = NoTimer
    /\ ops = <<>>
    /\ mounted = TRUE
    /\ alert = NoAlert
    /\ lastWrite = NoWrite
    /\ hist = HistInit

\* the history after setNote(..) by operation o
HistSetNote(h, o) ==
    [h EXCEPT !.burstClean = FALSE,
              !.fail = IF @ = "failed" THEN "rerun" ELSE @,
              !.held = IF o.stale THEN "stale" ELSE "fresh"]

\* onChangeText={setPhrase}
SetPhrase(p) ==
    /\ mounted /\ CanAct
    /\ p # phrase
    /\ acts' = Acted
    /\ phrase' = p
    /\ timer' = TimerAfterRender(FALSE, message, message, phrase, p, note, timer)
    /\ hist' = [hist EXCEPT
            !.burstClean = FALSE,
            !.duringEdit = IF valid(p) THEN @ ELSE U,
            !.fail = IF @ = "failed" /\ valid(p) # valid(phrase)
                     THEN "rerun" ELSE @,
            !.saved = "none"]
    /\ UNCHANGED <<note, message, loading, ops, mounted, alert, lastWrite>>
    /\ UNCHANGED <<resolverVars, libVars>>

\* onChangeText={setMessage}: the editor is rendered only while note is set
Edit(m) ==
    /\ mounted /\ CanAct
    /\ Truthy(note)
    /\ m # message
    /\ acts' = Acted
    /\ message' = m
    /\ timer' = TimerAfterRender(FALSE, message, m, phrase, phrase, note, timer)
    /\ ops' = [i \in OpIds |->
                 IF i \in SaveIds THEN [ops[i] EXCEPT !.edited = TRUE] ELSE ops[i]]
    /\ LET cont == hist.burstActive /\ hist.sinceEdit < DEBOUNCE_MS
       IN  hist' = [hist EXCEPT
            !.sinceEdit = 0,
            !.burstActive = TRUE,
            !.burstClean = IF cont THEN @
                           ELSE valid(phrase) /\ ops = <<>> /\ ~timer.armed,
            !.burstN = IF cont THEN @ ELSE 0,
            !.burstEdits = IF cont THEN Min(@ + 1, 3) ELSE 1,
            !.duringEdit = IF SaveIds # {} /\ valid(phrase) THEN m ELSE U,
            !.fail = IF @ \in {"failed", "rerun"} THEN "edited" ELSE @,
            !.saved = "none"]
    /\ UNCHANGED <<phrase, note, loading, mounted, alert, lastWrite>>
    /\ UNCHANGED <<resolverVars, libVars>>

\* onLoad through withLoad('load', ..): an invalid phrase only alerts;
\* otherwise getOrCreateNote(phrase) issues its GET and the body suspends
Load ==
    /\ mounted /\ CanAct /\ acts.loads < MaxLoads
    /\ acts' = [Acted EXCEPT !.loads = @ + 1]
    /\ IF ~valid(phrase)
       THEN /\ alert' = InvalidAlert
            /\ loading' = U
            /\ UNCHANGED <<ops, hist>>
       ELSE /\ loading' = "load"
            /\ ops' = Append(ops, LoadOp(phrase))
            /\ hist' = [hist EXCEPT !.burstClean = FALSE, !.duringEdit = U,
                                     !.saved = "none"]
            /\ UNCHANGED alert
    /\ UNCHANGED <<phrase, note, message, timer, mounted, lastWrite>>
    /\ UNCHANGED <<resolverVars, libVars>>

\* the rest of onLoad once getOrCreateNote returned n: setNote(n);
\* setMessage(n.message ?? ''); then the finally of withLoad.  Reading
\* n.message of null throws after setNote(null) and ends in the catch.
LoadReturned(o, n) ==
    /\ alert' = IF Truthy(n) THEN alert ELSE ErrorAlert(TypeErrorOfNull)
    /\ IF mounted
       THEN /\ note' = n
            /\ message' = IF Truthy(n) THEN MessageOrEmpty(n) ELSE message
            /\ timer' = TimerAfterRender(NoteChanged(note, n), message, message',
                                         phrase, phrase, n, timer)
            /\ loading' = U
            /\ hist' = [HistSetNote(hist, o) EXCEPT !.duringEdit = U,
                                                    !.saved = "none"]
       ELSE UNCHANGED <<note, message, timer, loading, hist>>

\* getOrCreateNote threw: catch of withLoad, then its finally
LoadThrown(err) ==
    /\ alert' = ErrorAlert(err)
    /\ loading' = IF mounted THEN U ELSE loading
    /\ UNCHANGED <<note, message, timer, hist>>

\* a request of the running load i ends with r
LoadResume(i, r) ==
    /\ i \in LoadIds
    /\ CanAnswer(r)
    /\ acts' = AfterAnswer(r)
    /\ LET c == GocNext(ops[i].call, r)
       IN  IF GocRunning(c)
           THEN /\ ops' = [ops EXCEPT ![i].call = c]
                /\ UNCHANGED <<note, message, timer, loading, alert, hist>>
           ELSE IF c.out.ok
           THEN /\ ops' = IF mounted THEN Superseding(ops, i) ELSE RemoveAt(ops, i)
                /\ LoadReturned(ops[i], c.out.val)
           ELSE /\ ops' = RemoveAt(ops, i)
                /\ LoadThrown(c.out.val)
    /\ UNCHANGED <<phrase, mounted, lastWrite>>
    /\ UNCHANGED <<resolverVars, libVars>>

LoadResumeAny ==
    \E i \in LoadIds :
        \E r \in ScreenOutcomes(GocRequest(ops[i].call).method, ops[i].key,
                                 GocRequest(ops[i].call).message) :
            LoadResume(i, r)

\* the debounce timer expires: withLoad('autosave', ..) sets the loading key
\* and saveNote(phrase, message) issues its PUT with the values the callback
\* closed over
TimerFire ==
    /\ timer.armed /\ timer.left = 0
    /\ loading' = "autosave"
    /\ ops' = Append(ops, SaveOp(timer.phrase, timer.message))
    /\ lastWrite' = [key |-> normalizePhrase(timer.phrase),
                     message |-> timer.message,
                     confirmed |-> note.message]
    /\ timer' = NoTimer
    /\ hist' = [hist EXCEPT
            !.burstN = Min(@ + 1, 2),
            !.duringEdit = IF @ = timer.message THEN U ELSE @,
            !.fail = "none",
            !.saved = "none"]
    /\ UNCHANGED <<acts, phrase, note, message, mounted, alert>>
    /\ UNCHANGED <<resolverVars, libVars>>

\* a rejected autosave scheduled again
SaveRejected_Retry(n, m, p, t) ==
    IF Truthy(n) /\ valid(p) THEN setTimeout(p, m) ELSE t

\* the timer a rejected autosave leaves: the catch of withLoad alerts and
\* touches nothing else
SaveRejected(n, m, p, t) == t

\* the history of the write responses after write i ended with r: "broken"
\* once a write failed or answered without the Note written, "reordered"
\* once a write was answered before a write started earlier
WritesAfter(w, i, r) ==
    IF w = "broken" \/ ~r.ok \/ r.val # NoteOf(ops[i].key, ops[i].msg)
    THEN "broken"
    ELSE IF \E j \in SaveIds : j < i THEN "reordered"
    ELSE w

\* the PUT of autosave i ends with r: setNote(updated) on success, the
\* catch of withLoad on failure, its finally in both cases
SaveResume(i, r) ==
    /\ i \in SaveIds
    /\ CanAnswer(r)
    /\ acts' = AfterAnswer(r)
    /\ IF r.ok
       THEN /\ UNCHANGED alert
            /\ IF mounted
               THEN /\ note' = r.val
                    /\ timer' = TimerAfterRender(NoteChanged(note, r.val), message,
                                    message, phrase, phrase, r.val, timer)
                    /\ loading' = U
                    /\ hist' = [HistSetNote(hist, ops[i]) EXCEPT
                            !.saved = IF ~ops[i].edited /\ Len(ops) = 1 /\ ~timer.armed
                                      THEN "ok" ELSE "none",
                            !.writes = WritesAfter(@, i, r)]
                    /\ ops' = Superseding(ops, i)
               ELSE /\ ops' = RemoveAt(ops, i)
                    /\ hist' = [hist EXCEPT !.writes = WritesAfter(@, i, r)]
                    /\ UNCHANGED <<note, timer, loading>>
       ELSE /\ alert' = ErrorAlert(r.val)
            /\ ops' = RemoveAt(ops, i)
            /\ loading' = IF mounted THEN U ELSE loading
            /\ timer' = IF mounted THEN SaveRejected(note, message, phrase, timer)
                         ELSE timer
            /\ hist' = [hist EXCEPT
                    !.fail = IF ops[i].edited THEN "edited"
                             ELSE IF timer.armed THEN "pending" ELSE "failed",
                    !.saved = "none",
                    !.writes = WritesAfter(@, i, r)]
            /\ UNCHANGED note
    /\ UNCHANGED <<phrase, message, mounted, lastWrite>>
    /\ UNCHANGED <<resolverVars, libVars>>

SaveResumeAny ==
    \E i \in SaveIds :
        \E r \in ScreenOutcomes("PUT", ops[i].key, ops[i].msg) : SaveResume(i, r)

\* TickMs of time pass; an expired timer fires before time moves on
Tick ==
    /\ timer.armed => timer.left >= TickMs
    /\ timer' = IF timer.armed THEN [timer EXCEPT !.left = @ - TickMs] ELSE timer
    /\ hist' = [hist EXCEPT !.sinceEdit = Min(@ + TickMs, DEBOUNCE_MS)]
    /\ UNCHANGED <<acts, phrase, note, message, loading, ops, mounted, alert,
                   lastWrite>>
    /\ UNCHANGED <<resolverVars, libVars>>

\* the component unmounts: the clean-up of the effect runs
Unmount ==
    /\ mounted /\ CanAct
    /\ acts' = Acted
    /\ mounted' = FALSE
    /\ timer' = clearTimeout(timer)
    /\ hist' = [hist EXCEPT !.burstClean = FALSE, !.duringEdit = U,
                             !.saved = "none",
                             !.teardown = IF timer.armed THEN "pending" ELSE "idle"]
    /\ UNCHANGED <<phrase, note, message, loading, ops, alert, lastWrite>>
    /\ UNCHANGED <<resolverVars, libVars>>

SetPhraseAny == \E p \in Phrases : SetPhrase(p)

EditAny == \E m \in EditMsgs : Edit(m)

-----------------------------------------------------------------------------
\* no JSON operation under way
JsonIdle ==
    [net |-> FALSE, res |-> Response(FALSE, U, FALSE, EmptyText), done |-> TRUE,
     out |-> Returned(JNull)]

\* the source response not received yet
NoSource == [net |-> FALSE, ok |-> FALSE, status |-> U, readable |-> FALSE]

\* uploadImageFromUrl not called
UplIdle ==
    [pc |-> "idle", url |-> <<>>, key |-> <<>>, src |-> NoSource,
     name |-> <<>>, reqs |-> <<>>, out |-> Returned(JNull)]

LibInit == json = JsonIdle /\ upl = UplIdle

Init == ScreenInit /\ ResolverInit /\ LibInit

Next ==
    \/ SetPhraseAny
    \/ EditAny
    \/ Load
    \/ LoadResumeAny
    \/ TimerFire
    \/ SaveResumeAny
    \/ Tick
    \/ Unmount

Spec == Init /\ [][Next]_vars

NextResolver == GocCallAny \/ GocResumeAny

SpecResolver == Init /\ [][NextResolver]_vars

\* Spec with time passing, expired timers firing and every request being
\* answered
FairSpec ==
    /\ Spec
    /\ WF_vars(Tick)
    /\ WF_vars(TimerFire)
    /\ WF_vars(LoadResumeAny)
    /\ WF_vars(SaveResumeAny)

-----------------------------------------------------------------------------
(* SpecJson: one JSON operation (await fetch, then handleJson) on every    *)
(* response: a status line of either kind, a body that can or cannot be    *)
(* read, and a text that is empty, raw or JSON.                            *)

JsonOkStatuses == {OkStatus, "201 Created", "204 No Content"}

JsonFailStatuses == FailStatuses \cup {"400 Bad Request"}

\* the bodies: empty; raw of 1, SNIPPET_MAX, SNIPPET_MAX + 1 and RAW_LEN
\* characters; JSON null, {}, a Note, and objects with an error field, a
\* message field, both, and an empty error field with and without message
JsonTexts ==
    {EmptyText, RawText(1), RawText(SNIPPET_MAX), RawText(SNIPPET_MAX + 1),
     RawText(RAW_LEN),
     JsonText(JNull), JsonText(EmptyObj),
     JsonText(NoteOf(<<"k", "e", "y">>, "x")),
     JsonText(JObj(UKey, U, "note not found")),
     JsonText(JObj(UKey, "validation failed", U)),
     JsonText(JObj(UKey, "validation failed", "note not found")),
     JsonText(JObj(UKey, "validation failed", "")),
     JsonText(JObj(UKey, U, ""))}

JsonResponses ==
    {Response(TRUE, st, rd, t) : st \in JsonOkStatuses, rd \in BOOLEAN, t \in JsonTexts}
    \cup {Response(FALSE, st, rd, t) :
                st \in JsonFailStatuses, rd \in BOOLEAN, t \in JsonTexts}

\* fetch has settled (rejected when net) and handleJson has not run yet
JsonStart(net, res) ==
    [net |-> net, res |-> res, done |-> FALSE, out |-> Returned(JNull)]

JsonInit ==
    json \in {JsonStart(FALSE, res) : res \in JsonResponses}
              \cup {JsonStart(TRUE, Response(FALSE, U, FALSE, EmptyText))}

\* const res = await fetch(..); const data = await handleJson(res)
JsonOperation ==
    /\ ~json.done
    /\ json' = [json EXCEPT !.done = TRUE, !.out = Awaited(json.net, json.res)]
    /\ UNCHANGED <<screenVars, resolverVars, upl>>

InitJson == ScreenInit /\ ResolverInit /\ JsonInit /\ upl = UplIdle

NextJson == JsonOperation

SpecJson == InitJson /\ [][NextJson]_vars

-----------------------------------------------------------------------------
(* SpecUpload: one uploadImageFromUrl call.  A URL is the sequence of its  *)
(* pieces, the separators "/", "?" and "#" being pieces of their own.      *)

\* s.split(sep)[0]: the text before the first sep
RECURSIVE SplitFirst(_, _)
SplitFirst(s, sep) ==
    IF s = <<>> \/ Head(s) = sep THEN <<>>
    ELSE <<Head(s)>> \o SplitFirst(Tail(s), sep)

\* s.split(sep).pop(): the text after the last sep, all of s without one
RECURSIVE SplitLast(_, _)
SplitLast(s, sep) ==
    IF s = <<>> THEN <<>>
    ELSE IF s[Len(s)] = sep THEN <<>>
    ELSE SplitLast(SubSeq(s, 1, Len(s) - 1), sep) \o <<s[Len(s)]>>

PLACEHOLDER_NAME == <<"image">>

\* line 185: imageUrl.split('?')[0].split('#')[0].split('/').pop() || 'image'
nameGuess(imageUrl) ==
    LET last == SplitLast(SplitFirst(SplitFirst(imageUrl, "?"), "#"), "/")
    IN  IF last = <<>> THEN PLACEHOLDER_NAME ELSE last

Origin == <<"https:", "/", "/", "host">>

ImageUrls ==
    {Origin,
     Origin \o <<"/">>,
     Origin \o <<"?", "x=1">>,
     Origin \o <<"/", "pic.jpg">>,
     Origin \o <<"/", "path", "/">>,
     Origin \o <<"/", "path", "/", "pic.jpg">>,
     Origin \o <<"/", "path", "/", "pic.jpg", "?", "x=1", "#", "frag">>,
     Origin \o <<"/", "path", "/", "pic.jpg", "#", "frag", "?", "x=1">>,
     Origin \o <<"/", "pic.jpg", "?", "u=", "/", "a">>,
     Origin \o <<"/", "path", "/", "#", "frag">>}

\* what the GET of imageUrl may end in: fetch rejects, or a response with
\* a status and a body that blob() can read or not
SourceOutcomes ==
    {[net |-> TRUE, ok |-> FALSE, status |-> U, readable |-> FALSE]}
    \cup {[net |-> FALSE, ok |-> TRUE, status |-> "200", readable |-> rd] :
                rd \in BOOLEAN}
    \cup {[net |-> FALSE, ok |-> FALSE, status |-> st, readable |-> rd] :
                st \in {"404", "500"}, rd \in BOOLEAN}

\* new Error(`Failed to fetch image: ${imgRes.status}`)
SourceFetchError(status) ==
    JError(ErrMsg("Failed to fetch image", "detail", status, 0))

\* the rejection of imgRes.blob()
BlobError == JError(ErrMsg("Failed to read the response body", "plain", U, 0))

SourceGet(url) == [method |-> "GET", to |-> url, key |-> <<>>, name |-> <<>>]

ImagePost(key, name) ==
    [method |-> "POST", to |-> <<"noteImage">>, key |-> key, name |-> name]

\* uploadImageFromUrl(phrase, imageUrl) up to await fetch(imageUrl)
UplStart(p, url) ==
    [pc |-> "source", url |-> url, key |-> normalizePhrase(p), src |-> NoSource,
     name |-> <<>>, reqs |-> <<SourceGet(url)>>, out |-> Returned(JNull)]

\* the POST is issued whatever the source answered
UplAfterSource_PostsAnyway(c, o) ==
    IF o.net THEN [c EXCEPT !.pc = "thrown", !.src = o, !.out = Thrown(NetworkError)]
    ELSE [c EXCEPT !.pc = "post", !.src = o, !.name = nameGuess(c.url),
                   !.reqs = Append(@, ImagePost(c.key, nameGuess(c.url)))]

\* lines 181-190: the source answered o; the call throws, or builds the
\* form and issues the POST to the note's image endpoint
UplAfterSource(c, o) ==
    IF o.net THEN [c EXCEPT !.pc = "thrown", !.src = o, !.out = Thrown(NetworkError)]
    ELSE IF ~o.ok THEN
        [c EXCEPT !.pc = "thrown", !.src = o,
                  !.out = Thrown(SourceFetchError(o.status))]
    ELSE IF ~o.readable THEN
        [c EXCEPT !.pc = "thrown", !.src = o, !.out = Thrown(BlobError)]
    ELSE [c EXCEPT !.pc = "post", !.src = o, !.name = nameGuess(c.url),
                   !.reqs = Append(@, ImagePost(c.key, nameGuess(c.url)))]

\* lines 190-193: the POST ended with r (fetch, then handleJson)
UplAfterPost(c, r) ==
    [c EXCEPT !.pc = IF r.ok THEN "returned" ELSE "thrown", !.out = r]

UplCall(p, url) ==
    /\ upl.pc = "idle"
    /\ upl' = UplStart(p, url)
    /\ UNCHANGED <<screenVars, resolverVars, json>>

UplSource(o) ==
    /\ upl.pc = "source"
    /\ upl' = UplAfterSource(upl, o)
    /\ UNCHANGED <<screenVars, resolverVars, json>>

UplPost(r) ==
    /\ upl.pc = "post"
    /\ upl' = UplAfterPost(upl, r)
    /\ UNCHANGED <<screenVars, resolverVars, json>>

UplCallAny == \E p \in Phrases : \E url \in ImageUrls : UplCall(p, url)

UplSourceAny == \E o \in SourceOutcomes : UplSource(o)

UplPostAny == \E r \in Outcomes("POST", upl.key, U) : UplPost(r)

NextUpload == UplCallAny \/ UplSourceAny \/ UplPostAny

SpecUpload == Init /\ [][NextUpload]_vars

-----------------------------------------------------------------------------
(* Claims about getOrCreateNote, checked under SpecResolver.               *)

Answered(i) == i <= Len(reqs) /\ reqs[i].done
Succeeded(i) == Answered(i) /\ reqs[i].out.ok
Failed(i) == Answered(i) /\ ~reqs[i].out.ok
IsWrite(i) == reqs[i].req.method \in {"PUT", "POST"}
GocEnded == goc.pc \in {"returned", "thrown"}

\* C1: once a write (PUT or POST) of the call has returned successfully,
\* whatever its body, the call issues no further GET.
C1_NoReadAfterSuccessfulWrite ==
    \A i \in 1..Len(reqs) : \A j \in 1..Len(reqs) :
        (i < j /\ IsWrite(i) /\ Succeeded(i)) => reqs[j].req.method # "GET"

\* C2: when the read fails and one of the two writes succeeds, the call
\* succeeds with a Note whose message is the default placeholder.
C2_DefaultMessageAfterWrite ==
    (GocEnded /\ Failed(1) /\ \E i \in 1..Len(reqs) : IsWrite(i) /\ Succeeded(i))
        => (goc.out.ok /\ goc.out.val.message = DEFAULT_INIT_MESSAGE)

AllThreeFailed == Failed(1) /\ Failed(2) /\ Failed(3)

\* C3: when the read, the upsert and the create all fail, the call throws
\* and the error thrown is the create failure (which, being there, takes
\* precedence over the upsert failure and the read failure); it returns
\* no Note.
C3_CreateFailurePropagates ==
    AllThreeFailed =>
        /\ goc.pc = "thrown"
        /\ goc.out = Thrown(reqs[3].out.val)
        /\ Len(reqs) = 3

\* the three failures are different errors, the create failure was thrown
C3_Witness ==
    /\ AllThreeFailed
    /\ reqs[3].req.method = "POST"
    /\ reqs[1].out.val # reqs[3].out.val
    /\ reqs[2].out.val # reqs[3].out.val
    /\ goc.pc = "thrown"

\* C4: when the read succeeds the call returns exactly the value the read
\* returned and issues neither a PUT nor a POST.
C4_ReadSuccessReturnsUnchanged ==
    Succeeded(1) =>
        /\ goc.pc = "returned"
        /\ goc.out = reqs[1].out
        /\ Len(reqs) = 1
        /\ reqs[1].req.method = "GET"

\* a read for the key of phrase " a " returned that key's Note, which the
\* call returned after this single request
C4_Witness ==
    /\ Succeeded(1)
    /\ goc.pc = "returned"
    /\ goc.out.val = NoteOf(goc.key, "x")
    /\ goc.key = <<"a">>
    /\ Len(reqs) = 1

-----------------------------------------------------------------------------
(* Claims about the autosave of IndexScreen, checked under Spec.           *)
(* hist.burst* describe the current burst of edits: a burst starts with an *)
(* edit made DEBOUNCE_MS or more after the previous one, it is clean while *)
(* it started with a Note held, a valid phrase, no timer and nothing in    *)
(* flight, and since then only edits, time and its own write happened.     *)

CleanBurst == hist.burstActive /\ hist.burstClean

\* nothing is scheduled and nothing is in flight
Settled == ~timer.armed /\ ops = <<>>

\* C5: a burst of edits, each less than 2000 ms after the previous one,
\* yields exactly one autosave write, carrying the last edited value.
C5_ExactlyOneWritePerBurst ==
    (CleanBurst /\ hist.sinceEdit = DEBOUNCE_MS /\ ~timer.armed)
        => (hist.burstN = 1 /\ lastWrite.message = message)

\* C5 as amended: during the burst no write is issued and the timer, armed
\* exactly when the message differs from the confirmed one, expires 2000 ms
\* after the last edit; once it has expired exactly one write carrying the
\* last value has been issued if that value differs from the confirmed
\* message, and none if it equals it.
C5_OneWriteUnlessBackToConfirmed ==
    CleanBurst =>
        IF timer.armed
        THEN /\ hist.burstN = 0
             /\ message # note.message
             /\ timer.message = message
             /\ timer.left = DEBOUNCE_MS - hist.sinceEdit
        ELSE IF message = note.message THEN hist.burstN = 0
        ELSE /\ hist.sinceEdit = DEBOUNCE_MS
             /\ hist.burstN = 1
             /\ lastWrite.message = message

\* three edits in one burst ended in one write carrying "xyz"
C5_Witness ==
    /\ CleanBurst
    /\ hist.burstEdits = 3
    /\ hist.burstN = 1
    /\ message = "xyz"
    /\ lastWrite.message = "xyz"

\* C6: while the local message equals the confirmed Note's message no timer
\* is armed; an armed timer carries the local message and that differs from
\* the confirmed one; an autosave write carries a value different from the
\* message confirmed when it is issued.
C6_NoTimerOnConfirmedValue ==
    /\ (Truthy(note) /\ message = note.message) => ~timer.armed
    /\ timer.armed =>
            (Truthy(note) /\ timer.message = message /\ message # note.message)
    /\ lastWrite # NoWrite => lastWrite.message # lastWrite.confirmed

\* edited away and back within the debounce time: no timer, no write
C6_Witness ==
    /\ CleanBurst
    /\ hist.burstEdits = 2
    /\ hist.sinceEdit < DEBOUNCE_MS
    /\ message = note.message
    /\ ~timer.armed
    /\ lastWrite = NoWrite

\* C7: at most one autosave write is in flight at any time.
C7_AtMostOneAutosaveInFlight == Cardinality(SaveIds) <= 1

\* C8: an edit made while an autosave write is in flight stays the local
\* message and, once nothing is scheduled or in flight any more and a Note
\* is held, a write carrying it has been issued.  (hist.duringEdit is that
\* edit until a write carries it, a newer edit replaces it, a load is
\* started, the phrase becomes invalid or the component unmounts.)
C8_EditDuringSaveIsWritten ==
    /\ hist.duringEdit # U => message = hist.duringEdit
    /\ (Settled /\ Truthy(note)) => hist.duringEdit = U

\* C9: no result of an operation is stored after a later-started operation
\* for another key has stored its own.
C9_LastStartedWins == hist.held # "stale"

WriteIssued == Len(ops') > Len(ops) /\ ops'[Len(ops')].kind = "autosave"

\* C10: after a failed autosave write that left nothing scheduled, no
\* autosave write is issued until the local message is edited again.
\* (hist.fail is "failed" from such a failure on, "rerun" once the effect
\* has run again for another reason than an edit, "edited" after an edit.)
C10_NoWriteUntilNewEdit ==
    [][WriteIssued => hist.fail \notin {"failed", "rerun"}]_vars

\* C10 as amended: the failed write alerts, leaves the Note as it is and
\* schedules nothing; no autosave write is issued until the effect runs
\* again, which takes a change of the message, of the Note or of the
\* validity of the phrase.  (hist.fail is "none" from the issue of a write
\* until a write fails, "failed" from a failure that found no timer armed
\* until the effect runs again.)
C10_FailureSchedulesNothing ==
    /\ [][(hist.fail = "none" /\ hist'.fail # "none") =>
            /\ note' = note
            /\ timer' = timer
            /\ alert' = ErrorAlert(NetworkError)]_vars
    /\ [](hist.fail = "failed" => ~timer.armed)
    /\ [][WriteIssued => hist.fail # "failed"]_vars

\* a write failed, time went by and nothing is scheduled although the
\* message is not the confirmed one
C10_Witness ==
    /\ hist.fail = "failed"
    /\ Settled /\ mounted /\ valid(phrase)
    /\ Truthy(note) /\ message # note.message
    /\ hist.sinceEdit = DEBOUNCE_MS
    /\ lastWrite.message = message
    /\ alert = ErrorAlert(NetworkError)

\* C11: after an autosave write has succeeded - nothing else in flight, no
\* timer running before, the message not edited since the write was issued
\* - no debounce timer is running (and so no further write is issued)
\* until the user acts again.  (hist.saved is "ok" from such a success until
\* the next user action or load result.)
C11_IdleAfterSuccessfulWrite == hist.saved = "ok" => ~timer.armed

\* C12: once the component is unmounted no debounce timer is running and
\* no autosave write is started.
C12_NoWriteAfterTeardown ==
    /\ [](~mounted => ~timer.armed)
    /\ [][WriteIssued => (mounted /\ mounted')]_vars

\* a timer armed by an edit was pending at teardown; its deadline has
\* passed, the message still differs from the confirmed one and no write
\* was ever issued
C12_Witness ==
    /\ ~mounted
    /\ hist.teardown = "pending"
    /\ hist.burstActive
    /\ hist.sinceEdit = DEBOUNCE_MS
    /\ Truthy(note) /\ valid(phrase) /\ message # note.message
    /\ Settled
    /\ lastWrite = NoWrite

\* C13: every request the screen has in flight (a load or an autosave
\* write) carries a normalized key of at least MIN_PHRASE_LEN characters.
C13_KeyLongEnough == \A i \in OpIds : Len(ops[i].key) >= MIN_PHRASE_LEN

\* C19: every autosave write is addressed to the key under which the Note
\* held when it is issued was resolved.  (A Note's key is the key of the
\* request whose response it is.)
C19_WritesGoToLoadedKey ==
    [][WriteIssued =>
        (note.key = UKey \/ ops'[Len(ops')].key = note.key)]_vars

\* the confirmed message is the local one, no timer, nothing in flight
Converged == Truthy(note) /\ note.message = message /\ Settled

\* C20: with a Note held, a valid key and the screen mounted, when every
\* write succeeds and is answered with the Note written, then - the user
\* having stopped, in whatever order the responses arrive - the screen
\* reaches and keeps a state in which the confirmed message is the local
\* one, no timer is running and nothing is in flight.
C20_EventuallyConverged ==
    <>[]((hist.writes # "broken" /\ mounted /\ Truthy(note) /\ valid(phrase))
            => Converged)

\* two writes were answered in the reverse order of their start and the
\* screen has converged on the last edit, which the last write carried
C20_Witness ==
    /\ hist.writes = "reordered"
    /\ mounted /\ valid(phrase)
    /\ Converged
    /\ lastWrite.message = message
    /\ hist.burstActive

-----------------------------------------------------------------------------
(* Claims about the JSON operation, checked under SpecJson.                *)

\* the operation failed in one of the three ways
JsonFailed == json.net \/ ~json.res.ok \/ ~json.res.readable

\* C14: when the request fails, the status is not a success or the body
\* cannot be read, the operation ends in a failure with a non-empty message
\* and never in a successful result.
C14_FailureNeverSucceeds ==
    (json.done /\ JsonFailed) =>
        /\ ~json.out.ok
        /\ json.out.val.t = "error"
        /\ json.out.val.err.status \notin {U, ""}

\* a non-success response whose body was read
JsonRefused == json.done /\ ~json.net /\ ~json.res.ok /\ json.res.readable

JsonBody == json.res.text

\* the failure the operation ended in
JsonFailure(how, detail, snip) ==
    json.out = Thrown(JError(ErrMsg(json.res.status, how, detail, snip)))

\* C15: for a non-success response whose body is a JSON object with an
\* error or message field the failure message is the status line followed
\* by that field's value, error before message; for a body that is not
\* JSON it is the status line followed by the first 200 characters of the
\* body at most.
C15_ErrorDetail ==
    JsonRefused =>
        /\ (JsonBody.kind = "json" /\ JsonBody.val.error # U) =>
                JsonFailure("detail", JsonBody.val.error, 0)
        /\ (JsonBody.kind = "json" /\ JsonBody.val.error = U
                /\ JsonBody.val.message # U) =>
                JsonFailure("detail", JsonBody.val.message, 0)
        /\ JsonBody.kind = "raw" =>
                JsonFailure("snippet", U, Min(JsonBody.len, SNIPPET_MAX))

\* C15 as amended: the field surfaced is the error field when it is not
\* empty, else the message field when that is not empty; with neither the
\* failure message is the status line alone.
C15_NonEmptyErrorDetail ==
    JsonRefused =>
        /\ (JsonBody.kind = "json" /\ TruthyStr(JsonBody.val.error)) =>
                JsonFailure("detail", JsonBody.val.error, 0)
        /\ (JsonBody.kind = "json" /\ ~TruthyStr(JsonBody.val.error)
                /\ TruthyStr(JsonBody.val.message)) =>
                JsonFailure("detail", JsonBody.val.message, 0)
        /\ (JsonBody.kind = "json" /\ ~TruthyStr(JsonBody.val.error)
                /\ ~TruthyStr(JsonBody.val.message)) =>
                JsonFailure("plain", U, 0)
        /\ JsonBody.kind = "raw" =>
                JsonFailure("snippet", U, Min(JsonBody.len, SNIPPET_MAX))

\* a 404 whose body holds both fields failed with the error field
C15_Witness ==
    /\ JsonRefused
    /\ json.res.status = "404 Not Found"
    /\ JsonBody = JsonText(JObj(UKey, "validation failed", "note not found"))
    /\ JsonFailure("detail", "note not found", 0)

\* C16: a success response whose body is empty or not JSON resolves to {}
\* and a success response with a JSON body resolves to the parsed value;
\* neither fails.
C16_SuccessNeverThrows ==
    (json.done /\ ~json.net /\ json.res.ok /\ json.res.readable) =>
        json.out = Returned(IF JsonBody.kind = "json" THEN JsonBody.val
                            ELSE EmptyObj)

\* a 200 whose body is RAW_LEN characters of no JSON resolved to {}
C16_Witness ==
    /\ json.done /\ ~json.net /\ json.res.ok /\ json.res.readable
    /\ JsonBody = RawText(RAW_LEN)
    /\ json.out = Returned(EmptyObj)

-----------------------------------------------------------------------------
(* Claims about uploadImageFromUrl, checked under SpecUpload.              *)

UplSourceAnswered == upl.pc \notin {"idle", "source"}

UplPosts == {i \in 1..Len(upl.reqs) : upl.reqs[i].method = "POST"}

\* C17: the file name of the upload is the last path segment of the source
\* URL without query string and fragment, and the placeholder when the URL
\* has no path segment.
\* (The path is what follows scheme and host in the URL cut at its first
\* "#" or "?"; it has no segment when it is empty or ends in "/".)
C17_FileNameIsLastPathSegment ==
    LET bare == SplitFirst(SplitFirst(upl.url, "#"), "?")
        path == SubSeq(bare, Len(Origin) + 1, Len(bare))
        segment == SplitLast(path, "/")
    IN  \A i \in UplPosts :
            upl.reqs[i].name =
                IF segment = <<>> THEN PLACEHOLDER_NAME ELSE segment

=============================================================================
